---- MODULE Spec2Model ----
(***************************************************************************)
(* Model of the JSON-dialect compiler front end: DFA.tokenize (src/DFA.py) *)
(* followed by ParseTree.parse (src/ParseTree.py), driven as in main.py.   *)
(*                                                                         *)
(* Python strings are modelled as sequences of one-character strings, so   *)
(* that indexing (node_val[0], node_val[-1]), concatenation and membership *)
(* tests are computed the way the code computes them.  Python list indices *)
(* are kept 0-based in the variables (i, current_token_index); PyIndex     *)
(* translates them to the 1-based TLA+ sequences.                          *)
(***************************************************************************)
EXTENDS Integers, Sequences, FiniteSets, TLC

\* ------------------------------------------------------------------------
\* Bounds of the input space
\* ------------------------------------------------------------------------
\* longest document (in source tokens) built along the loose follow relation
MaxTokens == 6
\* longest document (in source tokens) enumerated without any filter
ShortTokens == 2

\* the nesting depths examined as the maximum depth of the recursion
MaxDepth == 3

\* ------------------------------------------------------------------------
\* Generic helpers
\* ------------------------------------------------------------------------
Range(s) == {s[k] : k \in 1..Len(s)}

Last(s) == s[Len(s)]

\* Python's seq[k] for a 0-based index k, negative k counting from the end
PyIndex(s, k) == IF k < 0 THEN s[Len(s) + k + 1] ELSE s[k + 1]

\* Python's seq[k] raises IndexError
PyIndexError(s, k) == IF k < 0 THEN Len(s) + k + 1 < 1 ELSE k + 1 > Len(s)

RECURSIVE Concat(_)
Concat(ss) == IF ss = <<>> THEN <<>> ELSE Head(ss) \o Concat(Tail(ss))

\* ------------------------------------------------------------------------
\* Characters and string constants of the source
\* ------------------------------------------------------------------------
IsDigit(c) == c \in {"0", "1", "2", "3", "4", "5", "6", "7", "8", "9"}

IsSpaceChar(c) == c \in {" "}

\* str.isspace: non-empty and only whitespace
IsSpace(s) == s # <<>> /\ \A k \in 1..Len(s) : IsSpaceChar(s[k])

\* str.upper on the letters a keyword can contain
Upper(c) ==
  CASE c = "t" -> "T" [] c = "r" -> "R" [] c = "u" -> "U" [] c = "e" -> "E"
    [] c = "f" -> "F" [] c = "a" -> "A" [] c = "l" -> "L" [] c = "s" -> "S"
    [] OTHER -> c

UpperStr(s) == [k \in 1..Len(s) |-> Upper(s[k])]

sTrue == <<"t", "r", "u", "e">>
sFalse == <<"f", "a", "l", "s", "e">>
sNull == <<"n", "u", "l", "l">>
KeywordWords == {sTrue, sFalse, sNull}

sLBRACE == <<"L", "B", "R", "A", "C", "E">>
sRBRACE == <<"R", "B", "R", "A", "C", "E">>
sLBRACKET == <<"L", "B", "R", "A", "C", "K", "E", "T">>
sRBRACKET == <<"R", "B", "R", "A", "C", "K", "E", "T">>
sCOLON == <<"C", "O", "L", "O", "N">>
sCOMMA == <<"C", "O", "M", "M", "A">>
sNULL == <<"N", "U", "L", "L">>
sSTRINGp == <<"S", "T", "R", "I", "N", "G", ":">>
sNUMBERp == <<"N", "U", "M", "B", "E", "R", ":">>
sBOOLp == <<"B", "O", "O", "L", ":">>
sDict == <<"d", "i", "c", "t">>
sList == <<"l", "i", "s", "t">>
sSep == <<" ", ":", " ">>

\* str.startswith
StartsWith(s, p) == Len(p) <= Len(s) /\ SubSeq(s, 1, Len(p)) = p

\* Python's float(s) succeeds, for s over digits and . e E + -
\*   [sign] (digits ['.' digits*] | '.' digits+) [(e|E) [sign] digits+]
RECURSIVE FloatRun(_, _)
FloatRun(s, q) ==
  IF s = <<>> THEN q \in {"int", "frac", "exp"}
  ELSE LET c == Head(s)
           r == Tail(s)
       IN CASE q = "start" ->
                 IF c \in {"+", "-"} THEN FloatRun(r, "sign")
                 ELSE IF IsDigit(c) THEN FloatRun(r, "int")
                 ELSE IF c = "." THEN FloatRun(r, "dot")
                 ELSE FALSE
            [] q = "sign" ->
                 IF IsDigit(c) THEN FloatRun(r, "int")
                 ELSE IF c = "." THEN FloatRun(r, "dot")
                 ELSE FALSE
            [] q = "int" ->
                 IF IsDigit(c) THEN FloatRun(r, "int")
                 ELSE IF c = "." THEN FloatRun(r, "frac")
                 ELSE IF c \in {"e", "E"} THEN FloatRun(r, "e")
                 ELSE FALSE
            [] q = "dot" ->
                 IF IsDigit(c) THEN FloatRun(r, "frac") ELSE FALSE
            [] q = "frac" ->
                 IF IsDigit(c) THEN FloatRun(r, "frac")
                 ELSE IF c \in {"e", "E"} THEN FloatRun(r, "e")
                 ELSE FALSE
            [] q = "e" ->
                 IF c \in {"+", "-"} THEN FloatRun(r, "esign")
                 ELSE IF IsDigit(c) THEN FloatRun(r, "exp")
                 ELSE FALSE
            [] q = "esign" ->
                 IF IsDigit(c) THEN FloatRun(r, "exp") ELSE FALSE
            [] q = "exp" ->
                 IF IsDigit(c) THEN FloatRun(r, "exp") ELSE FALSE
            [] OTHER -> FALSE

IsFloat(s) == FloatRun(s, "start")

\* ------------------------------------------------------------------------
\* Input documents: the text handed to tokenize
\* ------------------------------------------------------------------------
\* source text of one token
pLB == <<"{">>
pRB == <<"}">>
pLK == <<"[">>
pRK == <<"]">>
pCO == <<":">>
pCM == <<",">>
Quoted(s) == <<"\"">> \o s \o <<"\"">>
pStrA == Quoted(<<"a">>)
pStrB == Quoted(<<"b">>)
pStrTrue == Quoted(sTrue)
pStrNull == Quoted(sNull)
pStrEmpty == Quoted(<<>>)
pStrBlank == Quoted(<<" ">>)
pStrTwo == Quoted(<<"t", "w", "o">>)
pStrEsc == Quoted(<<"a", "\\", "\"", "b">>)
pOne == <<"1">>
pTwo == <<"2">>
pZero == <<"0">>
pFiveDot == <<"5", ".">>
pDotFive == <<".", "5">>
pPlusOne == <<"+", "1">>
pTrue == sTrue
pNull == sNull

StringPieces == {pStrA, pStrTrue, pStrEmpty}
NumberPieces == {pOne, pZero, pFiveDot}
KeywordPieces == {pTrue, pNull}
BadStartPieces == {pDotFive, pPlusOne}
ValueStartPieces ==
  StringPieces \cup NumberPieces \cup KeywordPieces \cup BadStartPieces
    \cup {pLB, pLK}
Pieces == ValueStartPieces \cup {pRB, pRK, pCO, pCM}

\* what may follow a piece in a document that is, or is one slip away from,
\* a document of the grammar (closers are not matched against openers)
Follow(p) ==
  CASE p = pLB -> StringPieces \cup {pRB}
    [] p = pLK -> ValueStartPieces \cup {pRK}
    [] p \in StringPieces -> {pCO, pCM, pRB, pRK}
    [] p \in NumberPieces \cup KeywordPieces \cup BadStartPieces ->
         {pCM, pRB, pRK}
    [] p = pCO -> ValueStartPieces
    [] p = pCM -> ValueStartPieces \cup {pRB, pRK}
    [] OTHER -> {pCM, pRB, pRK}

\* every piece of the document follows the one before it
FollowOK(d) == \A k \in 2..Len(d) : d[k] \in Follow(d[k - 1])

\* the document d may be continued by the piece p: any piece while the
\* document is short, a following piece of a document that starts a container
CanExtend(d, p) ==
  IF Len(d) < ShortTokens THEN TRUE
  ELSE /\ Len(d) < MaxTokens
       /\ d[1] \in {pLB, pLK}
       /\ FollowOK(d)
       /\ p \in Follow(Last(d))

\* the document {"a":[1,2,3],"b":{"c":"d"}}
NestedDoc ==
  <<pLB, pStrA, pCO, pLK, pOne, pCM, pTwo, pCM, <<"3">>, pRK, pCM,
    pStrB, pCO, pLB, Quoted(<<"c">>), pCO, Quoted(<<"d">>), pRB, pRB>>

\* n objects nested as member values around the number 1
RECURSIVE NestedObjects(_)
NestedObjects(n) ==
  IF n = 0 THEN <<pOne>>
  ELSE <<pLB, pStrA, pCO>> \o NestedObjects(n - 1) \o <<pRB>>

\* a document nested one deeper than MaxDepth
DeepDoc == NestedObjects(MaxDepth + 1)

\* documents named by the specification's examples
ExampleDocs ==
  { NestedDoc,
    DeepDoc,
    <<pLB, pStrA, pCO, pLB, pStrB, pCO, pOne, pRB>>,
    <<pLB, pStrA, pCO, pLB, pStrB, pCO, pOne, pRB, pRB>>,
    <<pLB, pStrA, pCO, pOne, pCM, pStrA, pCO, pTwo, pRB>>,
    <<pLB, pStrA, pCO, pOne, pCM, pStrB, pCO, pTwo, pRB>>,
    <<pLB, pStrA, pCO, pLB, pStrA, pCO, pOne, pRB, pRB>>,
    <<pLB, pStrA, pCO, pLB, pStrB, pCO, pOne, pRB, pCM,
      pStrB, pCO, pLB, pStrB, pCO, pOne, pRB, pRB>>,
    <<pLB, pStrA, pCO, pLB, pStrB, pCO, pOne, pCM, pStrB, pCO, pOne, pRB, pRB>>,
    <<pLK, pOne, pCM, pStrTwo, pRK>>,
    <<pLK, pStrNull, pRK>>,
    <<pLB, pStrBlank, pCO, pOne, pRB>>,
    <<pLK, pRK, pOne>>,
    <<pLB, pRB, pRB, pRB>>,
    <<pLK, pStrEsc, pRK>>,
    <<pLK, <<"\"", "a", "\\">>>>,
    <<pLK, <<"\"", "a">>>>,
    <<pLK, <<"t", "x">>>>,
    <<pLK, <<"t", "r">>>>,
    <<pLK, <<"-", ".">>, pRK>>,
    <<pLB, pStrA, pCO, pLK, pOne, pCM, pStrA, pRK, pRB>>,
    <<pLB, pStrA, pCO, pLK, pOne, pCM, pOne, pRK, pRB>> }

\* ------------------------------------------------------------------------
\* State
\* ------------------------------------------------------------------------
VARIABLES
  pc,                   \* position of the driver (main.py)
  doc,                  \* the input file, as the sequence of its pieces
  json_input,           \* the text read from the input file
  state,                \* tokenize: local DFA state
  lex_current_token,    \* tokenize: local buffer current_token
  i,                    \* tokenize: local loop index (0-based)
  tokens,               \* DFA.tokens: lexemes
  token_types,          \* DFA.token_types: kinds
  current_token_index,  \* ParseTree.current_token_index
  current_token,        \* ParseTree.current_token
  parent_node,          \* ParseTree.parent_node (0 is None)
  ast_parent_node,      \* ParseTree.ast_parent_node (0 is None)
  nodes,                \* heap of Node objects, a Node's id is its position
  stack,                \* call stack of parse_dict / parse_list frames
  result                \* "none" while running, "ok", or the error kind

vars ==
  <<pc, doc, json_input, state, lex_current_token, i, tokens, token_types,
    current_token_index, current_token, parent_node, ast_parent_node,
    nodes, stack, result>>

lexVars == <<state, lex_current_token, i, tokens, token_types>>
parseVars ==
  <<current_token_index, current_token, parent_node, ast_parent_node,
    nodes, stack>>

\* dfa = DFA.DFA(), with the input file empty or one of the examples
Init ==
  /\ pc = "input"
  /\ doc \in {<<>>} \cup ExampleDocs
  /\ json_input = <<>>
  /\ state = ""
  /\ lex_current_token = <<>>
  /\ i = 0
  /\ tokens = <<>>
  /\ token_types = <<>>
  /\ current_token_index = 0
  /\ current_token = ""
  /\ parent_node = 0
  /\ ast_parent_node = 0
  /\ nodes = <<>>
  /\ stack = <<>>
  /\ result = "none"

\* the input file gets one more piece of text before the program reads it
write_piece ==
  /\ pc = "input"
  /\ \E p \in Pieces : /\ CanExtend(doc, p)
                       /\ doc' = Append(doc, p)
  /\ UNCHANGED <<pc, json_input, result>>
  /\ UNCHANGED <<state, lex_current_token, i, tokens, token_types>>
  /\ UNCHANGED <<current_token_index, current_token, parent_node,
                 ast_parent_node, nodes, stack>>

\* json_input = file.read()
read_input ==
  /\ pc = "input"
  /\ pc' = "main"
  /\ json_input' = Concat(doc)
  /\ UNCHANGED <<doc, result>>
  /\ UNCHANGED <<state, lex_current_token, i, tokens, token_types>>
  /\ UNCHANGED <<current_token_index, current_token, parent_node,
                 ast_parent_node, nodes, stack>>

\* an exception propagates out of main.py
Raise(kind) == /\ result' = kind
               /\ pc' = "done"

\* ------------------------------------------------------------------------
\* DFA.tokenize
\* ------------------------------------------------------------------------
\* entry of tokenize: the locals are set, the instance lists are left as is
tokenize ==
  /\ pc = "main"
  /\ pc' = "tokenize"
  /\ state' = "S0"
  /\ lex_current_token' = <<>>
  /\ i' = 0
  /\ UNCHANGED <<doc, json_input, tokens, token_types, result>>
  /\ UNCHANGED parseVars

\* variant: every one-character token is given the kind of a comma
PunctKindComma(c) == "COMMA"

\* the kind and lexeme of a one-character token
PunctKind(c) ==
  CASE c = "{" -> "LBRACE" [] c = "}" -> "RBRACE" [] c = "[" -> "LBRACKET"
    [] c = "]" -> "RBRACKET" [] c = ":" -> "COLON" [] c = "," -> "COMMA"

PunctLexeme(c) ==
  CASE c = "{" -> sLBRACE [] c = "}" -> sRBRACE [] c = "[" -> sLBRACKET
    [] c = "]" -> sRBRACKET [] c = ":" -> sCOLON [] c = "," -> sCOMMA

\* one loop iteration in state S0
tokenize_S0 ==
  /\ pc = "tokenize" /\ i < Len(json_input) /\ state = "S0"
  /\ LET char == json_input[i + 1]
     IN \/ /\ char \in {"{", "}", "[", "]", ":", ","}
           /\ tokens' = Append(tokens, PunctLexeme(char))
           /\ token_types' = Append(token_types, PunctKind(char))
           /\ i' = i + 1
           /\ UNCHANGED <<pc, state, lex_current_token, result>>
        \/ /\ char = "\""
           /\ token_types' = Append(token_types, "STRING")
           /\ state' = "STRING"
           /\ lex_current_token' = <<>>
           /\ i' = i + 1
           /\ UNCHANGED <<pc, tokens, result>>
        \/ /\ IsDigit(char) \/ char = "-"
           /\ token_types' = Append(token_types, "NUMBER")
           /\ state' = "NUMBER"
           /\ lex_current_token' = <<char>>
           /\ i' = i + 1
           /\ UNCHANGED <<pc, tokens, result>>
        \/ /\ char \in {"t", "f", "n"}
           /\ token_types' = Append(token_types, "KEYWORD")
           /\ state' = "KEYWORD"
           /\ lex_current_token' = <<char>>
           /\ i' = i + 1
           /\ UNCHANGED <<pc, tokens, result>>
        \/ /\ IsSpaceChar(char)
           /\ i' = i + 1
           /\ UNCHANGED <<pc, state, lex_current_token, tokens, token_types,
                          result>>
        \/ /\ char \notin {"{", "}", "[", "]", ":", ",", "\"", "-"}
           /\ char \notin {"t", "f", "n"}
           /\ ~IsDigit(char) /\ ~IsSpaceChar(char)
           /\ Raise("UnexpectedCharacter")
           /\ UNCHANGED lexVars
  /\ UNCHANGED <<doc, json_input>>
  /\ UNCHANGED parseVars

\* one loop iteration in state STRING
tokenize_STRING ==
  /\ pc = "tokenize" /\ i < Len(json_input) /\ state = "STRING"
  /\ LET char == json_input[i + 1]
     IN \/ /\ char = "\""
           /\ tokens' = Append(tokens, sSTRINGp \o lex_current_token)
           /\ state' = "S0"
           /\ i' = i + 1
           /\ UNCHANGED <<pc, lex_current_token, result>>
        \/ /\ char = "\\"
           /\ IF i + 1 < Len(json_input)
              THEN /\ lex_current_token' =
                        Append(lex_current_token, json_input[i + 2])
                   /\ i' = i + 2
                   /\ UNCHANGED <<pc, state, tokens, result>>
              ELSE /\ Raise("UnterminatedEscape")
                   /\ i' = i + 1
                   /\ UNCHANGED <<state, lex_current_token, tokens>>
        \/ /\ char \notin {"\"", "\\"}
           /\ lex_current_token' = Append(lex_current_token, char)
           /\ i' = i + 1
           /\ UNCHANGED <<pc, state, tokens, result>>
  /\ UNCHANGED <<doc, json_input, token_types>>
  /\ UNCHANGED parseVars

\* char.isdigit() or char in ".eE+-"
IsNumberChar(c) == IsDigit(c) \/ c \in {".", "e", "E", "+", "-"}

\* variant: the index is left as it is
PushbackNone(k) == k

\* variant: the index goes back by two
PushbackTwo(k) == k - 2

\* i -= 1
Pushback(k) == k - 1

\* one loop iteration in state NUMBER; the terminating character is left to
\* the next iteration (i -= 1 followed by i += 1)
tokenize_NUMBER ==
  /\ pc = "tokenize" /\ i < Len(json_input) /\ state = "NUMBER"
  /\ LET char == json_input[i + 1]
     IN IF IsNumberChar(char)
        THEN /\ lex_current_token' = Append(lex_current_token, char)
             /\ i' = i + 1
             /\ UNCHANGED <<pc, state, tokens, result>>
        ELSE IF IsFloat(lex_current_token)
        THEN /\ tokens' = Append(tokens, sNUMBERp \o lex_current_token)
             /\ state' = "S0"
             /\ i' = Pushback(i) + 1
             /\ UNCHANGED <<pc, lex_current_token, result>>
        ELSE /\ Raise("InvalidNumber")
             /\ UNCHANGED <<state, lex_current_token, i, tokens>>
  /\ UNCHANGED <<doc, json_input, token_types>>
  /\ UNCHANGED parseVars

\* any(k.startswith(current_token) for k in {"true", "false", "null"})
IsKeywordPrefix(s) == \E k \in KeywordWords : StartsWith(k, s)

\* one loop iteration in state KEYWORD
tokenize_KEYWORD ==
  /\ pc = "tokenize" /\ i < Len(json_input) /\ state = "KEYWORD"
  /\ LET char == json_input[i + 1]
         cur == Append(lex_current_token, char)
     IN /\ lex_current_token' = cur
        /\ IF cur \in KeywordWords
           THEN /\ tokens' = Append(tokens,
                               IF cur = sTrue \/ cur = sFalse
                               THEN sBOOLp \o UpperStr(cur) ELSE sNULL)
                /\ state' = "S0"
                /\ i' = i + 1
                /\ UNCHANGED <<pc, result>>
           ELSE IF ~IsKeywordPrefix(cur)
           THEN /\ Raise("InvalidKeyword")
                /\ UNCHANGED <<state, i, tokens>>
           ELSE /\ i' = i + 1
                /\ UNCHANGED <<pc, state, tokens, result>>
  /\ UNCHANGED <<doc, json_input, token_types>>
  /\ UNCHANGED parseVars

\* after the loop: incomplete tokens at the end of the input, then return
tokenize_end ==
  /\ pc = "tokenize" /\ ~(i < Len(json_input))
  /\ IF state = "NUMBER"
     THEN IF IsFloat(lex_current_token)
          THEN /\ tokens' = Append(tokens, sNUMBERp \o lex_current_token)
               /\ pc' = "tokenized"
               /\ UNCHANGED result
          ELSE /\ Raise("InvalidNumber")
               /\ UNCHANGED tokens
     ELSE IF state = "STRING"
     THEN /\ Raise("UnterminatedString")
          /\ UNCHANGED tokens
     ELSE IF state = "KEYWORD" /\ lex_current_token \notin KeywordWords
     THEN /\ Raise("InvalidKeyword")
          /\ UNCHANGED tokens
     ELSE /\ pc' = "tokenized"
          /\ UNCHANGED <<tokens, result>>
  /\ UNCHANGED <<doc, json_input, state, lex_current_token, i, token_types>>
  /\ UNCHANGED parseVars

\* ------------------------------------------------------------------------
\* Node objects
\* ------------------------------------------------------------------------
\* Node(label, is_leaf, parent): the new object gets the next free id
NewNode(ns, label, is_leaf, parent) ==
  Append(ns, [label |-> label, is_leaf |-> is_leaf, parent |-> parent,
              children |-> <<>>])

\* variant: the child is put before its siblings
add_childFirst(ns, n, child) == [ns EXCEPT ![n].children = <<child>> \o @]

\* Node.add_child
add_child(ns, n, child) == [ns EXCEPT ![n].children = Append(@, child)]

\* n.add_child(Node(label, True, n))
AddLeaf(ns, n, label) == add_child(NewNode(ns, label, TRUE, n), n, Len(ns) + 1)

\* variant: the speculative leaf stays
PopChildKept(ns, n) == ns

\* n.children.pop()
PopChild(ns, n) ==
  [ns EXCEPT ![n].children = SubSeq(@, 1, Len(@) - 1)]

\* n.children[-1].label = n.children[-1].label + " : " + node_val
FoldLabel(ns, n, node_val) ==
  LET c == Last(ns[n].children)
  IN [ns EXCEPT ![c].label = @ \o sSep \o node_val]

\* ------------------------------------------------------------------------
\* ParseTree: cursor
\* ------------------------------------------------------------------------
\* ParseTree.__init__
ParseTree_init ==
  /\ pc = "tokenized"
  /\ IF PyIndexError(token_types, 1 - 1)
     THEN /\ Raise("IndexError")
          /\ UNCHANGED <<current_token_index, current_token>>
     ELSE /\ current_token_index' = 1
          /\ current_token' = PyIndex(token_types, 1 - 1)
          /\ pc' = "parse"
          /\ UNCHANGED result
  /\ UNCHANGED <<parent_node, ast_parent_node, nodes, stack>>
  /\ UNCHANGED <<doc, json_input>>
  /\ UNCHANGED lexVars

\* the cursor as a value threaded through one step
Cursor == [tok |-> current_token, idx |-> current_token_index]

\* get_next_token raises
AtEnd(c) == PyIndexError(token_types, c.idx)

\* variant: the index moves on, the current token is left as it is
get_next_tokenSame(c) == [tok |-> c.tok, idx |-> c.idx + 1]

\* get_next_token, when it does not raise
get_next_token(c) ==
  [tok |-> PyIndex(token_types, c.idx), idx |-> c.idx + 1]

\* try: get_next_token() except: print("End of file")
TryNext(c) == IF AtEnd(c) THEN c ELSE get_next_token(c)

\* ------------------------------------------------------------------------
\* ParseTree: semantic checks
\* ------------------------------------------------------------------------
ValueKinds == {"STRING", "NUMBER", "KEYWORD", "LBRACKET", "LBRACE"}

\* str.isspace(node_val) or not node_val
IsEmptyKey(node_val) == IsSpace(node_val) \/ node_val = <<>>

\* node_val in ["true", "false", "null"], at a key
IsReservedKey(node_val) == node_val \in KeywordWords

\* node_val in keys
IsDuplicateKey(node_val, keys) == node_val \in Range(keys)

\* variant: one keys list shared with the calling frame
NewKeysShared ==
  IF Len(stack) > 1 THEN stack[Len(stack) - 1].keys ELSE <<>>

\* keys = []
NewKeys == <<>>

\* node_val in ["true", "false", "null"], at a value of an object
DictReservedString(node_val) == node_val \in KeywordWords

\* node_val in ["true", "false", "null"], at an element of an array
ListReservedString(node_val) == node_val \in KeywordWords

\* variant: only the leading character is examined
DictInvalidDecimalLeadingOnly(node_val) == PyIndex(node_val, 0) = "."

\* node_val[-1] == "." or node_val[0] == ".", at a value of an object
DictInvalidDecimal(node_val) ==
  PyIndex(node_val, -1) = "." \/ PyIndex(node_val, 0) = "."

\* node_val[-1] == "." or node_val[0] == ".", at an element of an array
ListInvalidDecimal(node_val) ==
  PyIndex(node_val, -1) = "." \/ PyIndex(node_val, 0) = "."

\* node_val[0] in "0+", at a value of an object
DictInvalidLeadingChar(node_val) == PyIndex(node_val, 0) \in {"0", "+"}

\* node_val[0] in "0+", at an element of an array
ListInvalidLeadingChar(node_val) == PyIndex(node_val, 0) \in {"0", "+"}

\* variant: only scalars against containers are told apart
ListTypeMismatchCoarse(current_type, token_passed) ==
  (current_type \in {"LBRACKET", "LBRACE"})
    # (token_passed \in {"LBRACKET", "LBRACE"})

\* current_type is not token_passed
ListTypeMismatch(current_type, token_passed) == current_type # token_passed

\* variant: after a comma any token is taken as the start of an element
ListTrailingCommaNever(tok) == FALSE

\* self.current_token == "RBRACKET", after the comma of an array
ListTrailingComma(tok) == tok = "RBRACKET"

\* self.current_token == "RBRACE", after the comma of an object
DictTrailingComma(tok) == tok = "RBRACE"

\* variant: an object is never taken as empty
IsEmptyDictNever(token_passed) == FALSE

\* token_passed == "RBRACE", on entry of parse_dict
IsEmptyDict(token_passed) == token_passed = "RBRACE"

\* token_passed == "RBRACKET", on entry of parse_list
IsEmptyList(token_passed) == token_passed = "RBRACKET"

\* ------------------------------------------------------------------------
\* ParseTree: call stack
\* ------------------------------------------------------------------------
Top == stack[Len(stack)]

\* the stack with the top frame's locals updated
SetTop(f) == [stack EXCEPT ![Len(stack)] = f]

\* return True
Return == SubSeq(stack, 1, Len(stack) - 1)

\* a call of parse_dict or parse_list: the callee's frame
Frame(fn, token_passed, parent, parent_ast, node_name) ==
  [fn |-> fn, pc |-> "enter", token_passed |-> token_passed,
   parent_node |-> parent, parent_ast_node |-> parent_ast,
   node_name |-> node_name, node |-> 0, ast_node |-> 0, keys |-> <<>>,
   node_val |-> <<>>, current_type |-> ""]

\* the outcome of one step of the parser: the heap, the cursor, the call
\* stack, and the exception raised if any
Outcome(ns, c, stk, err) ==
  /\ nodes' = ns
  /\ current_token' = c.tok
  /\ current_token_index' = c.idx
  /\ stack' = stk
  /\ IF err = "none" THEN UNCHANGED <<pc, result>> ELSE Raise(err)

\* ParseTree.parse, up to the call of the top-level container's function
parse ==
  /\ pc = "parse"
  /\ IF current_token \in {"LBRACE", "LBRACKET"}
     THEN IF AtEnd(Cursor)
          THEN /\ Raise("MissingEndOfInput")
               /\ UNCHANGED <<current_token, current_token_index, stack>>
          ELSE LET c == get_next_token(Cursor)
               IN /\ current_token' = c.tok
                  /\ current_token_index' = c.idx
                  /\ stack' =
                       <<IF current_token = "LBRACE"
                         THEN Frame("dict", c.tok, parent_node,
                                    ast_parent_node, sDict)
                         ELSE Frame("list", c.tok, parent_node,
                                    ast_parent_node, sList)>>
                  /\ pc' = "parsing"
                  /\ UNCHANGED result
     ELSE /\ Raise("IllegalStart")
          /\ UNCHANGED <<current_token, current_token_index, stack>>
  /\ UNCHANGED <<parent_node, ast_parent_node, nodes>>
  /\ UNCHANGED <<doc, json_input>>
  /\ UNCHANGED lexVars

\* ParseTree.parse, after the top-level container's function has returned
parse_end ==
  /\ pc = "parsing" /\ stack = <<>>
  /\ IF current_token_index < Len(token_types)
     THEN Raise("TrailingTokens")
     ELSE /\ result' = "ok"
          /\ pc' = "done"
  /\ UNCHANGED parseVars
  /\ UNCHANGED <<doc, json_input>>
  /\ UNCHANGED lexVars

\* ------------------------------------------------------------------------
\* ParseTree.parse_dict
\* ------------------------------------------------------------------------
\* creation and linking of the two nodes, "{", and the empty object
parse_dict_enter ==
  /\ pc = "parsing" /\ stack # <<>> /\ Top.fn = "dict" /\ Top.pc = "enter"
  /\ LET f == Top
         node == Len(nodes) + 1
         ast_node == Len(nodes) + 2
         n1 == NewNode(nodes, sDict, FALSE, f.parent_node)
         n2 == NewNode(n1, f.node_name, FALSE, f.parent_ast_node)
         root == parent_node = 0 \/ ast_parent_node = 0
         n3 == IF root THEN n2
               ELSE add_child(add_child(n2, f.parent_node, node),
                              f.parent_ast_node, ast_node)
         n4 == AddLeaf(n3, node, <<"{">>)
     IN /\ parent_node' = IF root THEN node ELSE parent_node
        /\ ast_parent_node' = IF root THEN ast_node ELSE ast_parent_node
        /\ IF IsEmptyDict(f.token_passed)
           THEN Outcome(AddLeaf(n4, node, <<"}">>), TryNext(Cursor), Return,
                        "none")
           ELSE Outcome(n4, Cursor,
                        SetTop([f EXCEPT !.pc = "loop", !.node = node,
                                         !.ast_node = ast_node,
                                         !.keys = NewKeys]),
                        "none")
  /\ UNCHANGED <<doc, json_input>>
  /\ UNCHANGED lexVars

\* the loop condition, the key with its checks, and the colon
parse_dict_key ==
  /\ pc = "parsing" /\ stack # <<>> /\ Top.fn = "dict" /\ Top.pc = "loop"
  /\ LET f == Top
         node_val == PyIndex(tokens, current_token_index - 1)
     IN IF f.token_passed # "STRING"
        THEN Outcome(nodes, Cursor, stack, "UnexpectedToken")
        ELSE IF IsEmptyKey(node_val)
        THEN Outcome(nodes, Cursor, stack, "EmptyKey")
        ELSE IF IsReservedKey(node_val)
        THEN Outcome(nodes, Cursor, stack, "ReservedWordAsKey")
        ELSE IF IsDuplicateKey(node_val, f.keys)
        THEN Outcome(nodes, Cursor, stack, "DuplicateKey")
        ELSE
          LET n1 == AddLeaf(AddLeaf(nodes, f.node, node_val),
                            f.ast_node, node_val)
              f1 == [f EXCEPT !.node_val = node_val,
                              !.keys = Append(@, node_val)]
          IN IF AtEnd(Cursor)
             THEN Outcome(n1, Cursor, SetTop(f1), "MissingEndOfInput")
             ELSE
               LET c1 == get_next_token(Cursor)
               IN IF c1.tok # "COLON"
                  THEN Outcome(n1, c1, SetTop(f1), "ExpectedColon")
                  ELSE IF AtEnd(c1)
                  THEN Outcome(n1, c1, SetTop(f1), "MissingEndOfInput")
                  ELSE Outcome(AddLeaf(n1, f.node, <<":">>),
                               get_next_token(c1),
                               SetTop([f1 EXCEPT !.pc = "value"]), "none")
  /\ UNCHANGED <<parent_node, ast_parent_node>>
  /\ UNCHANGED <<doc, json_input>>
  /\ UNCHANGED lexVars

\* a nested container at a value position: advance, pop the speculative
\* leaf, evaluate the callee's name, call
CallNested(f, kind) ==
  IF AtEnd(Cursor)
  THEN Outcome(nodes, Cursor, stack, "MissingEndOfInput")
  ELSE
    LET c1 == get_next_token(Cursor)
        f1 == [f EXCEPT !.pc = "sep", !.token_passed = c1.tok]
    IN IF nodes[f.ast_node].children = <<>>
       THEN Outcome(nodes, c1, SetTop(f1), "IndexError")
       ELSE
         LET n1 == PopChild(nodes, f.ast_node)
         IN IF PyIndexError(tokens, c1.idx - 4)
            THEN Outcome(n1, c1, SetTop(f1), "IndexError")
            ELSE Outcome(n1, c1,
                         Append(SetTop(f1),
                                Frame(IF kind = "LBRACKET" THEN "list"
                                      ELSE "dict",
                                      c1.tok, f.node, f.ast_node,
                                      PyIndex(tokens, c1.idx - 4))),
                         "none")

\* the value of a member
parse_dict_value ==
  /\ pc = "parsing" /\ stack # <<>> /\ Top.fn = "dict" /\ Top.pc = "value"
  /\ LET f == [Top EXCEPT !.token_passed = current_token]
         token_passed == current_token
         lexeme == PyIndex(tokens, current_token_index - 1)
     IN IF token_passed \notin ValueKinds
        THEN Outcome(nodes, Cursor, SetTop(f), "UnexpectedToken")
        ELSE IF token_passed \in {"LBRACKET", "LBRACE"}
        THEN CallNested(f, token_passed)
        ELSE IF token_passed = "STRING"
        THEN
          LET f1 == [f EXCEPT !.node_val = lexeme, !.pc = "sep"]
          IN IF DictReservedString(lexeme)
             THEN Outcome(nodes, Cursor, SetTop(f1), "ReservedWordAsString")
             ELSE
               LET n1 == FoldLabel(AddLeaf(nodes, f.node, lexeme),
                                   f.ast_node, lexeme)
               IN IF AtEnd(Cursor)
                  THEN Outcome(n1, Cursor, SetTop(f1), "MissingEndOfInput")
                  ELSE Outcome(n1, get_next_token(Cursor), SetTop(f1), "none")
        ELSE IF token_passed = "NUMBER"
        THEN
          LET f1 == [f EXCEPT !.node_val = lexeme, !.pc = "sep"]
          IN IF DictInvalidDecimal(lexeme)
             THEN Outcome(nodes, Cursor, SetTop(f1), "InvalidDecimal")
             ELSE IF DictInvalidLeadingChar(lexeme)
             THEN Outcome(nodes, Cursor, SetTop(f1),
                          "InvalidNumberLeadingChar")
             ELSE
               LET n1 == FoldLabel(AddLeaf(nodes, f.node, lexeme),
                                   f.ast_node, lexeme)
               IN IF AtEnd(Cursor)
                  THEN Outcome(n1, Cursor, SetTop(f1), "MissingEndOfInput")
                  ELSE Outcome(n1, get_next_token(Cursor), SetTop(f1), "none")
        ELSE
          \* KEYWORD: node_val still holds the key's lexeme
          LET f1 == [f EXCEPT !.pc = "sep"]
              n1 == FoldLabel(AddLeaf(nodes, f.node, lexeme),
                              f.ast_node, f.node_val)
          IN IF AtEnd(Cursor)
             THEN Outcome(n1, Cursor, SetTop(f1), "MissingEndOfInput")
             ELSE Outcome(n1, get_next_token(Cursor), SetTop(f1), "none")
  /\ UNCHANGED <<parent_node, ast_parent_node>>
  /\ UNCHANGED <<doc, json_input>>
  /\ UNCHANGED lexVars

\* the comma or the closing brace after a member
parse_dict_sep ==
  /\ pc = "parsing" /\ stack # <<>> /\ Top.fn = "dict" /\ Top.pc = "sep"
  /\ LET f == [Top EXCEPT !.token_passed = current_token]
     IN IF current_token = "COMMA"
        THEN IF AtEnd(Cursor)
             THEN Outcome(nodes, Cursor, SetTop(f), "MissingEndOfInput")
             ELSE
               LET c1 == get_next_token(Cursor)
                   n1 == AddLeaf(nodes, f.node, <<",">>)
                   f1 == [f EXCEPT !.token_passed = c1.tok, !.pc = "loop"]
               IN IF DictTrailingComma(c1.tok)
                  THEN Outcome(n1, c1, SetTop(f1), "TrailingComma")
                  ELSE Outcome(n1, c1, SetTop(f1), "none")
        ELSE IF current_token = "RBRACE"
        THEN Outcome(AddLeaf(nodes, f.node, <<"}">>), TryNext(Cursor),
                     Return, "none")
        ELSE Outcome(nodes, Cursor, SetTop(f), "UnexpectedToken")
  /\ UNCHANGED <<parent_node, ast_parent_node>>
  /\ UNCHANGED <<doc, json_input>>
  /\ UNCHANGED lexVars

\* ------------------------------------------------------------------------
\* ParseTree.parse_list
\* ------------------------------------------------------------------------
\* creation and linking of the two nodes, "[", and the empty array
parse_list_enter ==
  /\ pc = "parsing" /\ stack # <<>> /\ Top.fn = "list" /\ Top.pc = "enter"
  /\ LET f == Top
         node == Len(nodes) + 1
         ast_node == Len(nodes) + 2
         n1 == NewNode(nodes, sList, FALSE, f.parent_node)
         n2 == NewNode(n1, f.node_name, FALSE, f.parent_node)
         root == parent_node = 0 \/ ast_parent_node = 0
         n3 == IF root THEN n2
               ELSE add_child(add_child(n2, f.parent_node, node),
                              f.parent_ast_node, ast_node)
         n4 == AddLeaf(n3, node, <<"[">>)
     IN /\ parent_node' = IF root THEN node ELSE parent_node
        /\ ast_parent_node' = IF root THEN ast_node ELSE ast_parent_node
        /\ IF IsEmptyList(f.token_passed)
           THEN Outcome(AddLeaf(n4, node, <<"]">>), TryNext(Cursor), Return,
                        "none")
           ELSE Outcome(n4, Cursor,
                        SetTop([f EXCEPT !.pc = "loop", !.node = node,
                                         !.ast_node = ast_node,
                                         !.current_type = f.token_passed]),
                        "none")
  /\ UNCHANGED <<doc, json_input>>
  /\ UNCHANGED lexVars

\* the loop condition, the type check and one element; when the loop
\* condition fails, the statements after the loop
parse_list_elem ==
  /\ pc = "parsing" /\ stack # <<>> /\ Top.fn = "list" /\ Top.pc = "loop"
  /\ LET f == Top
         token_passed == f.token_passed
         lexeme == PyIndex(tokens, current_token_index - 1)
     IN IF token_passed \notin ValueKinds
        THEN IF token_passed = "RBRACKET"
             THEN Outcome(nodes, Cursor, Return, "none")
             ELSE Outcome(nodes, Cursor, stack, "UnexpectedToken")
        ELSE IF ListTypeMismatch(f.current_type, token_passed)
        THEN Outcome(nodes, Cursor, stack, "InconsistentListType")
        ELSE IF token_passed \in {"LBRACKET", "LBRACE"}
        THEN CallNested(f, token_passed)
        ELSE IF token_passed = "STRING"
        THEN
          LET f1 == [f EXCEPT !.node_val = lexeme, !.pc = "sep"]
          IN IF ListReservedString(lexeme)
             THEN Outcome(nodes, Cursor, SetTop(f1), "ReservedWordAsString")
             ELSE
               LET n1 == AddLeaf(AddLeaf(nodes, f.node, lexeme),
                                 f.ast_node, lexeme)
               IN IF AtEnd(Cursor)
                  THEN Outcome(n1, Cursor, SetTop(f1), "MissingEndOfInput")
                  ELSE Outcome(n1, get_next_token(Cursor), SetTop(f1), "none")
        ELSE IF token_passed = "NUMBER"
        THEN
          LET f1 == [f EXCEPT !.node_val = lexeme, !.pc = "sep"]
          IN IF ListInvalidDecimal(lexeme)
             THEN Outcome(nodes, Cursor, SetTop(f1), "InvalidDecimal")
             ELSE IF ListInvalidLeadingChar(lexeme)
             THEN Outcome(nodes, Cursor, SetTop(f1),
                          "InvalidNumberLeadingChar")
             ELSE
               LET n1 == AddLeaf(AddLeaf(nodes, f.node, lexeme),
                                 f.ast_node, lexeme)
               IN IF AtEnd(Cursor)
                  THEN Outcome(n1, Cursor, SetTop(f1), "MissingEndOfInput")
                  ELSE Outcome(n1, get_next_token(Cursor), SetTop(f1), "none")
        ELSE
          LET f1 == [f EXCEPT !.pc = "sep"]
              n1 == AddLeaf(AddLeaf(nodes, f.node, lexeme),
                            f.ast_node, lexeme)
          IN IF AtEnd(Cursor)
             THEN Outcome(n1, Cursor, SetTop(f1), "MissingEndOfInput")
             ELSE Outcome(n1, get_next_token(Cursor), SetTop(f1), "none")
  /\ UNCHANGED <<parent_node, ast_parent_node>>
  /\ UNCHANGED <<doc, json_input>>
  /\ UNCHANGED lexVars

\* the comma or the closing bracket after an element
parse_list_sep ==
  /\ pc = "parsing" /\ stack # <<>> /\ Top.fn = "list" /\ Top.pc = "sep"
  /\ LET f == [Top EXCEPT !.token_passed = current_token]
     IN IF current_token = "COMMA"
        THEN
          LET n1 == AddLeaf(nodes, f.node, <<",">>)
          IN IF AtEnd(Cursor)
             THEN Outcome(n1, Cursor, SetTop(f), "MissingEndOfInput")
             ELSE
               LET c1 == get_next_token(Cursor)
                   f1 == [f EXCEPT !.token_passed = c1.tok, !.pc = "loop"]
               IN IF ListTrailingComma(c1.tok)
                  THEN Outcome(n1, c1, SetTop(f1), "TrailingComma")
                  ELSE Outcome(n1, c1, SetTop(f1), "none")
        ELSE IF current_token = "RBRACKET"
        THEN Outcome(AddLeaf(nodes, f.node, <<"]">>), TryNext(Cursor),
                     Return, "none")
        ELSE Outcome(nodes, Cursor, SetTop(f), "UnexpectedToken")
  /\ UNCHANGED <<parent_node, ast_parent_node>>
  /\ UNCHANGED <<doc, json_input>>
  /\ UNCHANGED lexVars

\* ------------------------------------------------------------------------
\* Specification
\* ------------------------------------------------------------------------
Next ==
  \/ write_piece
  \/ read_input
  \/ tokenize
  \/ tokenize_S0
  \/ tokenize_STRING
  \/ tokenize_NUMBER
  \/ tokenize_KEYWORD
  \/ tokenize_end
  \/ ParseTree_init
  \/ parse
  \/ parse_dict_enter
  \/ parse_dict_key
  \/ parse_dict_value
  \/ parse_dict_sep
  \/ parse_list_enter
  \/ parse_list_elem
  \/ parse_list_sep
  \/ parse_end

Spec == Init /\ [][Next]_vars

\* ------------------------------------------------------------------------
\* Reuse of one DFA instance: tokenize is called again on the instance
\* ------------------------------------------------------------------------
\* instances holding at most this many kinds are called again
MaxRetained == 3

\* the errors tokenize raises
LexErrors ==
  {"UnexpectedCharacter", "UnterminatedEscape", "InvalidNumber",
   "InvalidKeyword", "UnterminatedString"}

\* the documents handed to the later calls: [1] and {}
ReuseDocs == {<<pLK, pOne, pRK>>, <<pLB, pRB>>}

\* a later call dfa.tokenize(x) on the same instance, after a call that
\* returned or raised: the locals are set, self.tokens and self.token_types
\* are the lists the earlier calls appended to
tokenize_again ==
  /\ \/ pc = "tokenized"
     \/ pc = "done" /\ result \in LexErrors
  /\ Len(token_types) <= MaxRetained
  /\ \E d \in ReuseDocs : /\ doc' = d
                           /\ json_input' = Concat(d)
  /\ pc' = "tokenize"
  /\ result' = "none"
  /\ state' = "S0"
  /\ lex_current_token' = <<>>
  /\ i' = 0
  /\ UNCHANGED <<tokens, token_types>>
  /\ UNCHANGED parseVars

\* ------------------------------------------------------------------------
\* The running program: the loop of tokenize goes on while it can
\* ------------------------------------------------------------------------
\* one iteration of the while loop of tokenize, or the statements after it
tokenize_loop ==
  \/ tokenize_S0
  \/ tokenize_STRING
  \/ tokenize_NUMBER
  \/ tokenize_KEYWORD
  \/ tokenize_end

SpecLive == Init /\ [][Next]_vars /\ WF_vars(tokenize_loop)

NextReuse == Next \/ tokenize_again

SpecReuse == Init /\ [][NextReuse]_vars

\* ------------------------------------------------------------------------
\* Types
\* ------------------------------------------------------------------------
TypeOK ==
  /\ pc \in {"input", "main", "tokenize", "tokenized", "parse", "parsing",
            "done"}
  /\ state \in {"", "S0", "STRING", "NUMBER", "KEYWORD"}
  /\ i \in 0..Len(json_input)
  /\ current_token_index \in 0..Len(token_types)
  /\ (pc = "done") = (result # "none")

\* ------------------------------------------------------------------------
\* Reference notions of the properties, read off the token sequence
\* ------------------------------------------------------------------------
\* 1-based position of the token the cursor is on
CurPos == current_token_index

\* the text of a STRING or NUMBER token without its kind prefix
StrText(lexeme) == SubSeq(lexeme, Len(sSTRINGp) + 1, Len(lexeme))
NumText(lexeme) == SubSeq(lexeme, Len(sNUMBERp) + 1, Len(lexeme))

Openers == {"LBRACE", "LBRACKET"}
Closers == {"RBRACE", "RBRACKET"}
Delta(t) == IF t \in Openers THEN 1 ELSE IF t \in Closers THEN -1 ELSE 0

\* nesting depth gained over positions j..q
RECURSIVE RelDepth(_, _)
RelDepth(j, q) ==
  IF q < j THEN 0 ELSE RelDepth(j, q - 1) + Delta(token_types[q])

\* positions j and p lie in the same container, j before p
SameContainer(j, p) ==
  /\ j < p
  /\ \A q \in j..(p - 1) : RelDepth(j, q) >= 0
  /\ RelDepth(j, p - 1) = 0

\* the openers not yet closed by a closer of their own shape after n tokens
RECURSIVE Unclosed(_)
Unclosed(n) ==
  IF n = 0 THEN <<>>
  ELSE LET s == Unclosed(n - 1)
           t == token_types[n]
       IN IF t \in Openers THEN Append(s, t)
          ELSE IF s # <<>> /\ ((t = "RBRACE" /\ Last(s) = "LBRACE")
                               \/ (t = "RBRACKET" /\ Last(s) = "LBRACKET"))
          THEN SubSeq(s, 1, Len(s) - 1)
          ELSE s

\* the token sequence is one complete container followed by further tokens
HasTrailing ==
  /\ token_types # <<>>
  /\ token_types[1] \in Openers
  /\ \E j \in 2..(Len(token_types) - 1) :
       /\ Unclosed(j) = <<>>
       /\ \A q \in 1..j : RelDepth(1, q) >= 0

\* the texts of the keys of the members that precede position p in the
\* object that position p belongs to
SiblingKeys(p) ==
  {StrText(tokens[j]) : j \in {k \in 1..(p - 1) :
       /\ token_types[k] = "STRING"
       /\ token_types[k + 1] = "COLON"
       /\ SameContainer(k, p)}}

\* the kind of the first element of the array that position p is an
\* element of
FirstKind(p) ==
  LET o == CHOOSE k \in 1..(p - 1) :
             /\ token_types[k] \in Openers
             /\ \A q \in (k + 1)..(p - 1) : RelDepth(k + 1, q) >= 0
             /\ RelDepth(k + 1, p - 1) = 0
  IN token_types[o + 1]

ScalarKinds == {"STRING", "NUMBER", "KEYWORD"}

InFrame(fn, at) ==
  pc = "parsing" /\ stack # <<>> /\ Top.fn = fn /\ Top.pc = at

\* the parser is about to examine a key of an object
AtKey == InFrame("dict", "loop") /\ Top.token_passed = "STRING"

\* the parser is about to examine an element of an array
AtElem == InFrame("list", "loop") /\ Top.token_passed \in ValueKinds

\* the parser is about to examine a value of the given scalar kind
AtValue(kind) ==
  \/ InFrame("dict", "value") /\ current_token = kind
  \/ /\ InFrame("list", "loop")
     /\ Top.token_passed = kind /\ Top.current_type = kind

\* ------------------------------------------------------------------------
\* Properties
\* ------------------------------------------------------------------------

\* C1: on a token sequence with no token after the close of the top-level
\* container, parse() returns successfully only if every opening brace or
\* bracket is closed by its own matching closing token.
C1_ClosedByOwnToken ==
  (result = "ok" /\ ~HasTrailing) => Unclosed(Len(token_types)) = <<>>

\* C2: when the top-level container has been parsed and the token sequence
\* is one complete container followed by one or more further tokens, the
\* outcome of parse() is TrailingTokens.
C2_TrailingTokens ==
  [][(pc = "parsing" /\ stack = <<>> /\ HasTrailing)
       => result' = "TrailingTokens"]_vars

\* C3: at a key, parse() fails with DuplicateKey exactly when the key's
\* text is the key of an earlier member of the same object; no other step
\* fails with DuplicateKey, so a key repeated in a nested or in a sibling
\* object is accepted.
C3_DuplicateKey ==
  [][/\ AtKey =>
          ((result' = "DuplicateKey")
             <=> (StrText(tokens[CurPos]) \in SiblingKeys(CurPos)))
     /\ ~AtKey => result' # "DuplicateKey"]_vars

\* C3 witness: a key repeated within one object has been met.
C3_Witness ==
  /\ result = "DuplicateKey"
  /\ StrText(tokens[CurPos]) \in SiblingKeys(CurPos)

\* C4: at a scalar element of an array whose first element is a scalar,
\* parse() fails with InconsistentListType, leaving both trees as they are,
\* when the element's kind differs from the first element's kind, and does
\* not fail with InconsistentListType when the kinds are equal.
C4_InconsistentListType ==
  [][(/\ AtElem
      /\ Top.token_passed \in ScalarKinds
      /\ FirstKind(CurPos) \in ScalarKinds)
       => IF FirstKind(CurPos) # Top.token_passed
          THEN result' = "InconsistentListType" /\ nodes' = nodes
          ELSE result' # "InconsistentListType"]_vars

\* C4 witness: a scalar element whose kind differs from that of the scalar
\* first element has been rejected.
C4_Witness ==
  /\ result = "InconsistentListType"
  /\ token_types[CurPos] \in ScalarKinds
  /\ FirstKind(CurPos) \in ScalarKinds
  /\ FirstKind(CurPos) # token_types[CurPos]

\* C5: at a NUMBER value whose numeric text starts with the digit 0 (and
\* does not end with a dot), parse() fails with InvalidNumberLeadingChar and
\* the number is appended to neither tree.
C5_LeadingZero ==
  [][(/\ AtValue("NUMBER")
      /\ Head(NumText(tokens[CurPos])) = "0"
      /\ Last(NumText(tokens[CurPos])) # ".")
       => (result' = "InvalidNumberLeadingChar" /\ nodes' = nodes)]_vars

\* digits followed by one dot
DigitsDot(s) ==
  /\ Len(s) >= 2
  /\ Last(s) = "."
  /\ \A k \in 1..(Len(s) - 1) : IsDigit(s[k])

\* tokenize is at the end of a number: the input ends or the next character
\* cannot continue the number
NumberEnds ==
  /\ pc = "tokenize" /\ state = "NUMBER"
  /\ (i < Len(json_input) => ~IsNumberChar(json_input[i + 1]))

\* C6: a number written as digits followed by a dot is accepted by
\* tokenize, and at a NUMBER value whose numeric text ends with a dot
\* parse() fails with InvalidDecimal and the number is appended to neither
\* tree.
C6_TrailingDot ==
  [][/\ (NumberEnds /\ DigitsDot(lex_current_token)) => result' = "none"
     /\ (AtValue("NUMBER") /\ Last(NumText(tokens[CurPos])) = ".")
          => (result' = "InvalidDecimal" /\ nodes' = nodes)]_vars

\* C6 witness: a NUMBER value ending with a dot has been rejected by the
\* parser.
C6_Witness ==
  /\ result = "InvalidDecimal"
  /\ token_types[CurPos] = "NUMBER"
  /\ Last(NumText(tokens[CurPos])) = "."

\* the documents {"a":.5} and [.5]
LeadingDotDocs ==
  {Concat(<<pLB, pStrA, pCO, pDotFive, pRB>>), Concat(<<pLK, pDotFive, pRK>>)}

\* the documents {"a":+1} and [+1]
LeadingPlusDocs ==
  {Concat(<<pLB, pStrA, pCO, pPlusOne, pRB>>), Concat(<<pLK, pPlusOne, pRK>>)}

\* C7: a document whose value starts with a dot fails with InvalidDecimal
\* and one whose value starts with a plus sign fails with
\* InvalidNumberLeadingChar.
C7_LeadingDotOrPlus ==
  pc = "done" =>
    /\ json_input \in LeadingDotDocs => result = "InvalidDecimal"
    /\ json_input \in LeadingPlusDocs => result = "InvalidNumberLeadingChar"

\* C8: at a STRING value whose text is exactly true, false or null, parse()
\* fails with ReservedWordAsString.
C8_ReservedWordAsString ==
  [][(AtValue("STRING") /\ StrText(tokens[CurPos]) \in KeywordWords)
       => result' = "ReservedWordAsString"]_vars

\* C9: at a key whose text is exactly true, false or null, parse() fails
\* with ReservedWordAsKey and the key is added to neither tree.
C9_ReservedWordAsKey ==
  [][(AtKey /\ StrText(tokens[CurPos]) \in KeywordWords)
       => (result' = "ReservedWordAsKey" /\ nodes' = nodes)]_vars

\* C10: at a key whose text is empty or only whitespace, parse() fails with
\* EmptyKey and the key is added to neither tree.
C10_EmptyKey ==
  [][(/\ AtKey
      /\ \/ StrText(tokens[CurPos]) = <<>>
         \/ IsSpace(StrText(tokens[CurPos])))
       => (result' = "EmptyKey" /\ nodes' = nodes)]_vars

\* the closing token of the container whose function is fn
CloserOf(fn) == IF fn = "dict" THEN "RBRACE" ELSE "RBRACKET"

\* the parser is at the separator after a member or element, the separator
\* is a comma, and the token after the comma closes the container
AtTrailingComma ==
  /\ pc = "parsing" /\ stack # <<>> /\ Top.pc = "sep"
  /\ token_types[CurPos] = "COMMA"
  /\ CurPos < Len(token_types)
  /\ token_types[CurPos + 1] = CloserOf(Top.fn)

\* C11: in an array and in an object, at a comma that is immediately
\* followed by the container's closing token, parse() fails with
\* TrailingComma; the container's function does not return.
C11_TrailingComma ==
  [][AtTrailingComma
       => (result' = "TrailingComma" /\ Len(stack') = Len(stack))]_vars

\* C11 witness: an object's comma followed by its closing brace has been
\* rejected.
C11_Witness ==
  /\ result = "TrailingComma"
  /\ Top.fn = "dict"
  /\ token_types[CurPos - 1] = "COMMA"
  /\ token_types[CurPos] = "RBRACE"

\* the parser is at a member's value that opens a container, and the token
\* sequence goes on after the opening token
AtContainerValue ==
  /\ InFrame("dict", "value")
  /\ token_types[CurPos] \in Openers
  /\ CurPos < Len(token_types)

\* the function of a nested container has just been called
AtNestedEnter ==
  pc = "parsing" /\ Len(stack) > 1 /\ Top.pc = "enter"

\* the children of AST node n are leaves with the given labels
LeafChildren(n, labels) ==
  /\ Len(nodes[n].children) = Len(labels)
  /\ \A k \in 1..Len(labels) :
       /\ nodes[nodes[n].children[k]].is_leaf
       /\ nodes[nodes[n].children[k]].label = labels[k]

\* the AST of {"a":[1,2,3],"b":{"c":"d"}}: two interior children named from
\* the keys a and b, the first holding 1, 2, 3 and the second the single
\* folded member of c and d
NestedDocAST ==
  LET ch == nodes[ast_parent_node].children
  IN /\ Len(ch) = 2
     /\ ~nodes[ch[1]].is_leaf /\ ~nodes[ch[2]].is_leaf
     /\ nodes[ch[1]].label = sSTRINGp \o <<"a">>
     /\ nodes[ch[2]].label = sSTRINGp \o <<"b">>
     /\ LeafChildren(ch[1], <<sNUMBERp \o <<"1">>, sNUMBERp \o <<"2">>,
                              sNUMBERp \o <<"3">> >>)
     /\ LeafChildren(ch[2], <<sSTRINGp \o <<"c">> \o sSep
                                \o sSTRINGp \o <<"d">> >>)

\* C12: at a member's value that opens a container, the step does not fail,
\* removes the key's leaf (the last child) from the object's AST node and
\* calls the nested function with the member's key as the name; entering
\* the nested function appends exactly one interior node of that name to
\* the object's AST node; and parse() of {"a":[1,2,3],"b":{"c":"d"}}
\* succeeds with an AST root of two such children.
C12_ContainerMember ==
  [][/\ AtContainerValue =>
          LET a == Top.ast_node
              key == tokens[CurPos - 2]
          IN /\ result' = "none"
             /\ nodes[Last(nodes[a].children)].label = key
             /\ nodes[Last(nodes[a].children)].is_leaf
             /\ nodes'[a].children =
                  SubSeq(nodes[a].children, 1, Len(nodes[a].children) - 1)
             /\ Len(stack') = Len(stack) + 1
             /\ Last(stack').node_name = key
             /\ Last(stack').parent_ast_node = a
     /\ (AtNestedEnter /\ stack[Len(stack) - 1].fn = "dict") =>
          LET a == Top.parent_ast_node
          IN /\ Len(nodes'[a].children) = Len(nodes[a].children) + 1
             /\ SubSeq(nodes'[a].children, 1, Len(nodes[a].children))
                  = nodes[a].children
             /\ ~nodes'[Last(nodes'[a].children)].is_leaf
             /\ nodes'[Last(nodes'[a].children)].label = Top.node_name
     /\ (json_input = Concat(NestedDoc) /\ pc' = "done") =>
          (result' = "ok" /\ NestedDocAST')]_vars

\* C12 witness: parse() of {"a":[1,2,3],"b":{"c":"d"}} has succeeded, with
\* the two container-valued members folded.
C12_Witness ==
  /\ json_input = Concat(NestedDoc)
  /\ result = "ok"
  /\ NestedDocAST

\* the parser is at an element that opens a nested container of the kind of
\* the array's first element, in a token sequence that closes every
\* container it opens
AtNestedElem ==
  /\ AtElem
  /\ token_types[CurPos] \in Openers
  /\ FirstKind(CurPos) = token_types[CurPos]
  /\ Unclosed(Len(token_types)) = <<>>

\* C13: at an element that is a nested array or object of the same kind as
\* the array's first element, the step does not fail and calls the nested
\* container's function, whose node becomes a child of the array's nodes.
C13_NestedElements ==
  [][AtNestedElem
       => (result' = "none" /\ Len(stack') = Len(stack) + 1)]_vars

\* the parser is at a member's value that is a scalar
AtScalarValue ==
  InFrame("dict", "value") /\ token_types[CurPos] \in ScalarKinds

\* C14: when the step at a scalar value of a member (a STRING, a NUMBER, or
\* a KEYWORD token, which is BOOL or NULL) has parsed the value, the object's
\* AST node has as many children as before and the member's node, its last
\* child, is labelled with the key's lexeme, " : ", and the lexeme of the
\* value token.
C14_MemberLabel ==
  [][(AtScalarValue /\ result' = "none") =>
       LET a == Top.ast_node
       IN /\ Len(nodes'[a].children) = Len(nodes[a].children)
          /\ nodes'[Last(nodes'[a].children)].label =
               tokens[CurPos - 2] \o sSep \o tokens[CurPos]]_vars

\* the documents {} and []
EmptyDictDoc == Concat(<<pLB, pRB>>)
EmptyListDoc == Concat(<<pLK, pRK>>)

\* the parse-tree root has exactly the two given punctuation leaves and the
\* AST root is an interior node without children
EmptyTrees(open, close) ==
  /\ ~nodes[parent_node].is_leaf
  /\ LeafChildren(parent_node, <<open, close>>)
  /\ ~nodes[ast_parent_node].is_leaf
  /\ nodes[ast_parent_node].children = <<>>

\* C15: the run on the document {} and the run on the document [] end
\* with parse() returning successfully, the parse-tree root holding exactly
\* the opening and the closing leaf and the AST root holding no child.
C15_EmptyContainers ==
  pc = "done" =>
    /\ json_input = EmptyDictDoc
         => (result = "ok" /\ EmptyTrees(<<"{">>, <<"}">>))
    /\ json_input = EmptyListDoc
         => (result = "ok" /\ EmptyTrees(<<"[">>, <<"]">>))

\* C15 witness: parse() has returned successfully on the document {}, the
\* cursor still on the closing brace, the last token.
C15_Witness ==
  /\ json_input = EmptyDictDoc
  /\ result = "ok"
  /\ EmptyTrees(<<"{">>, <<"}">>)
  /\ current_token = "RBRACE" /\ CurPos = Len(token_types)

\* the grammar, read over the token kinds: the state of a recogniser after
\* n tokens, the open containers and what may come next
\*   document := object | array
\*   object   := { } | { member (, member)* }     member := STRING : value
\*   array    := [ ] | [ value (, value)* ]
\*   value    := STRING | NUMBER | KEYWORD | object | array
Bad == [open |-> <<>>, ex |-> "bad"]

Opened(s, t) == [open |-> Append(s.open, t), ex |-> "first"]

Closed(s) ==
  [open |-> SubSeq(s.open, 1, Len(s.open) - 1),
   ex |-> IF Len(s.open) = 1 THEN "end" ELSE "sep"]

Closes(s, t) ==
  \/ t = "RBRACE" /\ Last(s.open) = "LBRACE"
  \/ t = "RBRACKET" /\ Last(s.open) = "LBRACKET"

ValueSeen(s, t) ==
  IF t \in ScalarKinds THEN [s EXCEPT !.ex = "sep"]
  ELSE IF t \in Openers THEN Opened(s, t)
  ELSE Bad

RECURSIVE Scan(_)
Scan(n) ==
  IF n = 0 THEN [open |-> <<>>, ex |-> "start"]
  ELSE
    LET s == Scan(n - 1)
        t == token_types[n]
        inObject == Last(s.open) = "LBRACE"
    IN CASE s.ex = "start" -> IF t \in Openers THEN Opened(s, t) ELSE Bad
         [] s.ex = "first" ->
              IF Closes(s, t) THEN Closed(s)
              ELSE IF inObject
              THEN IF t = "STRING" THEN [s EXCEPT !.ex = "colon"] ELSE Bad
              ELSE ValueSeen(s, t)
         [] s.ex = "key" ->
              IF t = "STRING" THEN [s EXCEPT !.ex = "colon"] ELSE Bad
         [] s.ex = "colon" ->
              IF t = "COLON" THEN [s EXCEPT !.ex = "value"] ELSE Bad
         [] s.ex = "value" -> ValueSeen(s, t)
         [] s.ex = "sep" ->
              IF Closes(s, t) THEN Closed(s)
              ELSE IF t = "COMMA"
              THEN [s EXCEPT !.ex = IF inObject THEN "key" ELSE "value"]
              ELSE Bad
         [] OTHER -> Bad

\* the token sequence is a document of the grammar
Conforms == Scan(Len(token_types)).ex = "end"

\* the label of the parse-tree leaf of the token at position k
LeafOf(k) ==
  CASE token_types[k] = "LBRACE" -> <<"{">>
    [] token_types[k] = "RBRACE" -> <<"}">>
    [] token_types[k] = "LBRACKET" -> <<"[">>
    [] token_types[k] = "RBRACKET" -> <<"]">>
    [] token_types[k] = "COLON" -> <<":">>
    [] token_types[k] = "COMMA" -> <<",">>
    [] OTHER -> tokens[k]

\* the labels of the leaves below node n, from left to right
RECURSIVE Frontier(_)
RECURSIVE FrontierOf(_)
Frontier(n) ==
  IF nodes[n].is_leaf THEN <<nodes[n].label>>
  ELSE FrontierOf(nodes[n].children)
FrontierOf(ch) ==
  IF ch = <<>> THEN <<>> ELSE Frontier(Head(ch)) \o FrontierOf(Tail(ch))

\* node n and the nodes below it
RECURSIVE Below(_)
Below(n) == {n} \cup UNION {Below(c) : c \in Range(nodes[n].children)}

\* the labels a node of a punctuation token would carry
PunctLabels ==
  {<<"{">>, <<"}">>, <<"[">>, <<"]">>, <<":">>, <<",">>,
   sLBRACE, sRBRACE, sLBRACKET, sRBRACKET, sCOLON, sCOMMA}

\* C16: when parse() has succeeded on a token sequence that conforms to
\* the grammar, the leaves of the parse tree are, from left to right, one
\* leaf per token (so there are as many leaves as tokens), and no node of
\* the AST carries a punctuation token.
C16_LeafPerToken ==
  (result = "ok" /\ Conforms) =>
    /\ Frontier(parent_node) = [k \in 1..Len(tokens) |-> LeafOf(k)]
    /\ Len(Frontier(parent_node)) = Len(token_types)
    /\ \A n \in Below(ast_parent_node) : nodes[n].label \notin PunctLabels

\* C16 witness: parse() has succeeded on a conforming document with a
\* nested container and a comma, one leaf per token.
C16_Witness ==
  /\ result = "ok" /\ Conforms
  /\ Len(Frontier(parent_node)) = Len(token_types)
  /\ \E n \in Below(parent_node) \ {parent_node} : ~nodes[n].is_leaf
  /\ "COMMA" \in Range(token_types)

\* the pieces that are the text of exactly one token
TokenPieces == Pieces \ BadStartPieces

\* the kind and the lexeme of the token whose text is the piece p
PieceKind(p) ==
  IF p \in StringPieces THEN "STRING"
  ELSE IF p \in NumberPieces THEN "NUMBER"
  ELSE IF p \in KeywordPieces THEN "KEYWORD"
  ELSE PunctKind(p[1])

PieceLexeme(p) ==
  IF p \in StringPieces THEN sSTRINGp \o SubSeq(p, 2, Len(p) - 1)
  ELSE IF p \in NumberPieces THEN sNUMBERp \o p
  ELSE IF p = pTrue THEN sBOOLp \o <<"T", "R", "U", "E">>
  ELSE IF p = pNull THEN sNULL
  ELSE PunctLexeme(p[1])

\* the document is a sequence of token texts none of which runs into the
\* next, so the tokens in it are its pieces
TokenPerPiece ==
  /\ \A k \in 1..Len(doc) : doc[k] \in TokenPieces
  /\ FollowOK(doc)

\* C17: whenever tokenize(x) has returned, after whatever earlier calls on
\* the same instance, the lists of the instance hold exactly the tokens of
\* x, one per token text of x in order, and nothing from earlier calls.
C17_TokenizeIndependent ==
  (pc = "tokenized" /\ TokenPerPiece) =>
    /\ Len(tokens) = Len(doc)
    /\ Len(token_types) = Len(doc)
    /\ \A k \in 1..Len(doc) : /\ tokens[k] = PieceLexeme(doc[k])
                               /\ token_types[k] = PieceKind(doc[k])

\* the kind and the lexeme describe the same token
SameToken(kind, lexeme) ==
  CASE kind = "STRING" -> StartsWith(lexeme, sSTRINGp)
    [] kind = "NUMBER" -> StartsWith(lexeme, sNUMBERp)
    [] kind = "KEYWORD" -> lexeme = sNULL \/ StartsWith(lexeme, sBOOLp)
    [] kind = "LBRACE" -> lexeme = sLBRACE
    [] kind = "RBRACE" -> lexeme = sRBRACE
    [] kind = "LBRACKET" -> lexeme = sLBRACKET
    [] kind = "RBRACKET" -> lexeme = sRBRACKET
    [] kind = "COLON" -> lexeme = sCOLON
    [] kind = "COMMA" -> lexeme = sCOMMA
    [] OTHER -> FALSE

\* C18: with a fresh instance, at every point of tokenize token_types is as
\* long as tokens while the DFA is in its start state S0 and exactly one
\* entry longer while it is in another state, the entries at equal
\* positions describe the same token, and when tokenize has returned the
\* two sequences have equal length.
C18_Lockstep ==
  /\ pc = "tokenize" =>
       Len(token_types) = Len(tokens) + (IF state = "S0" THEN 0 ELSE 1)
  /\ pc = "tokenized" => Len(token_types) = Len(tokens)
  /\ pc \in {"tokenize", "tokenized"} =>
       \A k \in 1..Len(tokens) : SameToken(token_types[k], tokens[k])

\* C18 witness: the DFA is inside a number after at least two complete
\* tokens, the number's kind already appended and its lexeme not yet.
C18_Witness ==
  /\ pc = "tokenize" /\ state = "NUMBER"
  /\ Len(tokens) >= 2
  /\ Len(token_types) = Len(tokens) + 1
  /\ token_types[Len(token_types)] = "NUMBER"

\* the position of the first element of the array that position p is an
\* element of
FirstElem(p) ==
  1 + (CHOOSE k \in 1..(p - 1) :
         /\ token_types[k] \in Openers
         /\ \A q \in (k + 1)..(p - 1) : RelDepth(k + 1, q) >= 0
         /\ RelDepth(k + 1, p - 1) = 0)

\* the token is NULL, as opposed to BOOL
IsNullToken(lexeme) == lexeme = sNULL

\* C19: in a token sequence that closes every container it opens, at an
\* element of an array that is a boolean where the array's first element is
\* null, or null where the first element is a boolean, parse() fails with
\* InconsistentListType.
C19_BoolVsNull ==
  [][(/\ AtElem
      /\ Unclosed(Len(token_types)) = <<>>
      /\ token_types[CurPos] = "KEYWORD"
      /\ token_types[FirstElem(CurPos)] = "KEYWORD"
      /\ IsNullToken(tokens[CurPos])
           # IsNullToken(tokens[FirstElem(CurPos)]))
       => result' = "InconsistentListType"]_vars

\* the document 1,
OneCommaDoc == Concat(<<pOne, pCM>>)

\* tokenize has just ended a number in front of the character at index i:
\* the number's lexeme is the last one and the character is still to be
\* processed from the start state
AfterPushback ==
  /\ pc = "tokenize" /\ state = "S0"
  /\ 0 < i /\ i < Len(json_input)
  /\ IsNumberChar(json_input[i]) /\ ~IsNumberChar(json_input[i + 1])
  /\ tokens # <<>>
  /\ Last(tokens) = sNUMBERp \o lex_current_token

\* C20: a loop iteration of tokenize that meets, in state NUMBER, a
\* character outside digits and . e E + - appends the number's lexeme and
\* nothing else, returns to the start state and leaves the index on that
\* character, which the next iteration processes from the start state,
\* moving on by one; every other iteration moves the index forward past the
\* characters it has read (one, or two for an escape); and tokenize of 1,
\* returns NUMBER:1 followed by COMMA.
C20_Pushback ==
  [][/\ (pc = "tokenize" /\ pc' = "tokenize") =>
          IF NumberEnds
          THEN /\ i' = i
               /\ state' = "S0"
               /\ tokens' = Append(tokens, sNUMBERp \o lex_current_token)
               /\ token_types' = token_types
          ELSE /\ i' \in {i + 1, i + 2}
               /\ i' = i + 2 => (state = "STRING" /\ json_input[i + 1] = "\\")
     /\ (AfterPushback /\ pc' = "tokenize") =>
          (i' = i + 1 /\ Len(token_types') = Len(token_types) + 1)
     /\ (json_input = OneCommaDoc /\ pc' = "tokenized") =>
          (/\ tokens' = <<sNUMBERp \o <<"1">>, sCOMMA>>
           /\ token_types' = <<"NUMBER", "COMMA">>)]_vars

\* C20 witness: in tokenize of a document the number 1 has been ended by
\* the comma after it, and the comma is still to be processed.
C20_Witness ==
  /\ AfterPushback
  /\ json_input[i + 1] = ","
  /\ Last(tokens) = sNUMBERp \o <<"1">>

\* the ParseTree object exists: its constructor has set the cursor
Constructed == current_token_index >= 1

\* no token remains after the cursor
NoneRemains == current_token_index = Len(token_types)

\* a step that starts by advancing the cursor: parse() on an opening token,
\* or a container's function on the comma after an element or member
MustAdvance ==
  \/ pc = "parse" /\ current_token \in Openers
  \/ /\ pc = "parsing" /\ stack # <<>> /\ Top.pc = "sep"
     /\ current_token = "COMMA"

\* C21: once the cursor exists, after every step the index is between 1 and
\* the number of tokens and the current token is the kind at that position;
\* the index never decreases; get_next_token on a cursor with a token
\* remaining gives the next position and its kind, the index one higher;
\* with no token remaining no step changes the index or the current token,
\* a step that starts by advancing fails with MissingEndOfInput, and no
\* step fails so while a token remains after the cursor it ends with.
C21_Cursor ==
  [][/\ Constructed' =>
          /\ current_token_index' \in 1..Len(token_types')
          /\ current_token' = token_types'[current_token_index']
     /\ Constructed =>
          /\ current_token_index' >= current_token_index
          /\ AtEnd(Cursor) <=> NoneRemains
          /\ ~NoneRemains =>
               get_next_token(Cursor) =
                 [tok |-> token_types[current_token_index + 1],
                  idx |-> current_token_index + 1]
          /\ NoneRemains =>
               /\ current_token_index' = current_token_index
               /\ current_token' = current_token
               /\ MustAdvance => result' = "MissingEndOfInput"
     /\ result' = "MissingEndOfInput" => NoneRemains']_vars

\* C21 witness: get_next_token has failed on the comma that is the last of
\* several tokens, the cursor still on it.
C21_Witness ==
  /\ result = "MissingEndOfInput"
  /\ current_token_index = Len(token_types)
  /\ current_token_index >= 3
  /\ current_token = "COMMA"
  /\ token_types[current_token_index] = "COMMA"

\* the number of parse_dict / parse_list calls that have not returned
Depth == Len(stack)

\* C22: for the maximum depth D, taken to be MaxDepth (a document nested
\* MaxDepth + 1 deep passes every smaller depth as well): the recursion
\* never goes deeper than D calls, and at depth D a member's value that
\* opens one more container makes parse() fail with NestingTooDeep.
C22_NestingTooDeep ==
  [][/\ Depth' <= MaxDepth
     /\ (Depth = MaxDepth /\ AtContainerValue)
          => result' = "NestingTooDeep"]_vars

\* C23: tokenize terminates: once called it returns or raises; an iteration
\* of its loop never moves the index back, leaves it where it was only when
\* it ends a number, and then the next iteration (in the start state) moves
\* it on, so the index stays on one position for at most two consecutive
\* iterations.
C23_TokenizeTerminates ==
  /\ (pc = "tokenize") ~> (pc \in {"tokenized", "done"})
  /\ [][(pc = "tokenize" /\ pc' = "tokenize") =>
          /\ i' >= i
          /\ i' = i => (state = "NUMBER" /\ state' = "S0")
          /\ state = "S0" => i' > i]_vars

\* C23 witness: tokenize has returned at the end of an input in which a
\* number was ended by the character after it.
C23_Witness ==
  /\ pc = "tokenized"
  /\ i = Len(json_input)
  /\ \E k \in 1..(Len(token_types) - 1) : token_types[k] = "NUMBER"

====
